---- MODULE Spec2Model ----
(***************************************************************************)
(* Linux-Process-Manager: the Manager (process table, CPU-time history,    *)
(* active session), its refresh engine, the tree builder and the           *)
(* privileged-operation dispatcher, as a state machine.                    *)
(*                                                                         *)
(* The operating system is the environment: every value the code reads     *)
(* from /proc, sysconf, the monotonic clock or a signal/priority call is   *)
(* an input drawn from a small set.  Floating-point values are modelled    *)
(* as exact fractions <<n, d>> in lowest terms; <<1, 0>> is +infinity,     *)
(* <<-1, 0>> is -infinity and <<0, 0>> is NaN (IEEE results of a division  *)
(* by zero).  Rounding of f64/f32 is not modelled.                         *)
(***************************************************************************)
EXTENDS Integers, Sequences, FiniteSets, TLC

(***************************************************************************)
(* Bounds of the model.                                                    *)
(***************************************************************************)
MaxPid == 2
MaxClock == 1
MaxCores == 1
MaxTarget == 3
MaxTreePid == 3
MaxKillPid == 4
MaxKillParent == 2

(***************************************************************************)
(* Program constants.                                                      *)
(***************************************************************************)
RootPid == 1
DefaultHz == 100
DefaultCores == 1

Pids == 1..MaxPid
\* pids and parent pids of the tables kill_descendants is exercised on
KillPids == 1..MaxKillPid
KillPpids == 0..MaxKillParent
\* pids a caller may name as the target of a control operation
Targets == 1..MaxTarget
\* pids and parent pids of the tables the tree builder is exercised on
TreePids == 1..MaxTreePid
TreePpids == 0..MaxTreePid
Privileges == {"Normal", "Admin"}
\* cumulative CPU ticks (utime + stime) /proc/[pid]/stat may report
TickValues == {100, 200}
\* seconds the monotonic clock may advance between two Instant::now() calls
TimeSteps == {0, 1}
\* results of sysconf(_SC_CLK_TCK)
SysconfValues == {-1, 100}
\* what reading a /proc text file yields: -1 unreadable, else the number of
\* matching lines
LineCounts == -1..MaxCores
\* results of Process::get_cpu_time_jiffies
TickOk(t) == [ok |-> TRUE, ticks |-> t]
TickErr == [ok |-> FALSE, ticks |-> 0]
TickReads == {TickOk(t) : t \in TickValues} \cup {TickErr}

VARIABLES
    privilege,           \* manager.active_user.privilege
    processes,           \* manager.processes: pid -> Process
    previous_cpu_times,  \* manager.previous_cpu_times: pid -> <<ticks, time>>
    now,                 \* the monotonic clock behind Instant::now()
    pc,                  \* "new" | "idle" | "loop" | "menu"
    pending,             \* enumeration entries not yet visited by the loop
    new_processes,       \* refresh_processes: the map being assembled
    successfully_loaded, \* refresh_processes: counter
    current_time,        \* refresh_processes: Instant taken once per cycle
    num_cores,           \* refresh_processes: get_num_cores()
    hz,                  \* refresh_processes: get_hz()
    history_at_start,    \* previous_cpu_times as it was when the cycle began
    detail_ok,           \* pids whose entry and detailed read succeeded
    tick_read,           \* pid -> result of the tick read in this cycle
    os_read,             \* pid -> the ppid and start time read in this cycle
    os_before,           \* os_read of the latest completed cycle
    selected_pids,       \* gui: ProcessManagerApp.selected_pids
    last                 \* outcome of the most recent operation

vars == <<privilege, processes, previous_cpu_times, now, pc, pending,
          new_processes, successfully_loaded, current_time, num_cores, hz,
          history_at_start, detail_ok, tick_read, os_read, os_before,
          selected_pids, last>>

managerVars == <<privilege, processes, previous_cpu_times>>
loopVars == <<pending, new_processes, successfully_loaded, current_time,
              num_cores, hz>>
cycleVars == <<history_at_start, detail_ok, tick_read, os_read, os_before>>

(***************************************************************************)
(* Finite maps (HashMap) as functions over a finite domain.                *)
(***************************************************************************)
EmptyMap == [x \in {} |-> 0]

MapInsert(m, k, v) == [x \in (DOMAIN m) \cup {k} |-> IF x = k THEN v ELSE m[x]]

MapRetain(m, keep) == [x \in (DOMAIN m) \cap keep |-> m[x]]

Min(S) == CHOOSE x \in S : \A y \in S : x <= y

(***************************************************************************)
(* Fractions.                                                              *)
(***************************************************************************)
Abs(x) == IF x < 0 THEN -x ELSE x

Sign(x) == IF x < 0 THEN -1 ELSE IF x > 0 THEN 1 ELSE 0

RECURSIVE GCD(_, _)
GCD(a, b) == IF b = 0 THEN a ELSE GCD(b, a % b)

Rat(n, d) ==
    IF d = 0 THEN <<Sign(n), 0>>
    ELSE LET g == GCD(Abs(n), Abs(d))
             s == Sign(d)
         IN <<(s * n) \div g, (s * d) \div g>>

RatInt(n) == <<n, 1>>

RatMul(a, b) == Rat(a[1] * b[1], a[2] * b[2])

\* IEEE division of finite operands: x/0 is an infinity, 0/0 is NaN
RatDiv(a, b) == Rat(a[1] * b[2], a[2] * b[1])

RatPositive(a) == a[1] > 0 /\ a[2] > 0

Zero == RatInt(0)

(***************************************************************************)
(* monitoring.rs                                                           *)
(***************************************************************************)
\* get_num_cores: cpuinfo, stat are the line counts of the two files
get_num_cores(cpuinfo, stat) ==
    IF cpuinfo >= 0 THEN cpuinfo
    ELSE IF stat >= 0 THEN stat
    ELSE DefaultCores

\* get_hz
get_hz(sysconf) == IF sysconf > 0 THEN sysconf ELSE DefaultHz

\* mutant: the plain difference, which may be negative
saturating_sub_signed(a, b) == a - b

\* u64::saturating_sub
saturating_sub(a, b) == IF a >= b THEN a - b ELSE 0

\* mutant: the ratio is not scaled to a percentage
cpu_percent_of_ratio(current_cpu_time, prev, cur_time, cores, ticksPerSec) ==
    LET delta_cpu_time == saturating_sub(current_cpu_time, prev[1])
        delta_wall_time == RatInt(cur_time - prev[2])
        cpu_time_seconds == RatDiv(RatInt(delta_cpu_time), RatInt(ticksPerSec))
    IN IF RatPositive(delta_wall_time)
       THEN RatDiv(RatDiv(cpu_time_seconds, delta_wall_time), RatInt(cores))
       ELSE Zero

\* the CPU percentage of a pid that has a previous sample
cpu_percent_of(current_cpu_time, prev, cur_time, cores, ticksPerSec) ==
    LET delta_cpu_time == saturating_sub(current_cpu_time, prev[1])
        delta_wall_time == RatInt(cur_time - prev[2])
        cpu_time_seconds == RatDiv(RatInt(delta_cpu_time), RatInt(ticksPerSec))
    IN IF RatPositive(delta_wall_time)
       THEN RatDiv(RatMul(RatDiv(cpu_time_seconds, delta_wall_time),
                          RatInt(100)),
                   RatInt(cores))
       ELSE Zero

\* mutant: a failed tick read stamps the older sample with this cycle's time
next_sample_restamped(history, pid, read, cur_time, cores, ticksPerSec) ==
    IF read.ok
    THEN [cpu_percent |-> cpu_percent_of(read.ticks, history[pid], cur_time,
                                         cores, ticksPerSec),
          history |-> MapInsert(history, pid, <<read.ticks, cur_time>>)]
    ELSE [cpu_percent |-> Zero,
          history |-> MapInsert(history, pid, <<history[pid][1], cur_time>>)]

\* a pid with a previous sample: read is the result of
\* get_cpu_time_jiffies
next_sample(history, pid, read, cur_time, cores, ticksPerSec) ==
    IF read.ok
    THEN [cpu_percent |-> cpu_percent_of(read.ticks, history[pid], cur_time,
                                         cores, ticksPerSec),
          history |-> MapInsert(history, pid, <<read.ticks, cur_time>>)]
    ELSE [cpu_percent |-> Zero, history |-> history]

\* mutant: a first observation is rated over the ticks of its whole lifetime
first_sample_lifetime(history, pid, read, cur_time) ==
    [cpu_percent |-> IF read.ok
                     THEN RatDiv(RatInt(read.ticks), RatInt(DefaultHz))
                     ELSE Zero,
     history |-> IF read.ok
                 THEN MapInsert(history, pid, <<read.ticks, cur_time>>)
                 ELSE history]

\* a pid seen for the first time
first_sample(history, pid, read, cur_time) ==
    [cpu_percent |-> Zero,
     history |-> IF read.ok
                 THEN MapInsert(history, pid, <<read.ticks, cur_time>>)
                 ELSE history]

\* mutant: a failed uptime read does not fail the conversion
try_from_without_uptime(new_ok, stat_ok, status_ok, uptime_ok) ==
    new_ok /\ stat_ok /\ status_ok

\* Process::try_from: ProcfsProcess::new, stat, status and calculate_uptime
\* in turn, each propagated with "?"; TRUE stands for Ok
try_from(new_ok, stat_ok, status_ok, uptime_ok) ==
    new_ok /\ stat_ok /\ status_ok /\ uptime_ok

\* what one iteration of the loop can meet: whether the enumeration entry
\* and every read of the detailed record succeeded (all_ok), and whether
\* the loop got a Process out of it (loaded)
ReadResults ==
    {[all_ok |-> e /\ n /\ st /\ su /\ up,
      loaded |-> e /\ try_from(n, st, su, up)] :
        e \in BOOLEAN, n \in BOOLEAN, st \in BOOLEAN, su \in BOOLEAN,
        up \in BOOLEAN}

\* calculate_uptime: seconds since the process started, from its start
\* time in ticks and the system uptime in seconds
calculate_uptime(starttime_jiffies, system_uptime_secs, ticksPerSec) ==
    LET system_uptime_jiffies == system_uptime_secs * ticksPerSec IN
    IF system_uptime_jiffies > starttime_jiffies
    THEN (system_uptime_jiffies - starttime_jiffies) \div ticksPerSec
    ELSE 0

\* Option: None and Some(x)
None == [none |-> TRUE]

Some(x) == [some |-> x]

\* mutant: the fields of the stat record are mixed up
Process_fields_mixed(ppid, cpu, uptime) ==
    [parent_id |-> Some(uptime), cpu_percent |-> cpu, uptime_seconds |-> ppid]

\* the Process built by try_from, after set_cpu_percent
Process(ppid, cpu, uptime) ==
    [parent_id |-> Some(ppid), cpu_percent |-> cpu,
     uptime_seconds |-> uptime]

Init ==
    /\ privilege \in Privileges
    /\ processes = EmptyMap
    /\ previous_cpu_times = EmptyMap
    /\ now = 0
    /\ pc = "new"
    /\ pending = {}
    /\ new_processes = EmptyMap
    /\ successfully_loaded = 0
    /\ current_time = 0
    /\ num_cores = DefaultCores
    /\ hz = DefaultHz
    /\ history_at_start = EmptyMap
    /\ detail_ok = {}
    /\ tick_read = EmptyMap
    /\ os_read = EmptyMap
    /\ os_before = EmptyMap
    /\ selected_pids = {}
    /\ last = [op |-> "none"]

\* mutant: the table is cleared before the enumeration is attempted
RefreshEnumFailClears ==
    /\ pc \in {"new", "idle", "menu"}
    /\ pc' = "idle"
    /\ processes' = EmptyMap
    /\ last' = [op |-> "refresh", result |-> "Err"]
    /\ UNCHANGED <<privilege, previous_cpu_times, now, loopVars, cycleVars,
                   selected_pids>>

\* procfs::process::all_processes() fails: refresh_processes returns Err.
\* Inside Manager::new the caller falls back to an empty manager.
RefreshEnumFail ==
    /\ pc \in {"new", "idle", "menu"}
    /\ pc' = "idle"
    /\ last' = [op |-> "refresh", result |-> "Err"]
    /\ UNCHANGED <<managerVars, now, loopVars, cycleVars, selected_pids>>

\* all_processes() succeeds: the locals of refresh_processes are set up
\* (listings: the sets of pids the enumeration may list)
RefreshBegin(listings, steps, sysconfs, counts) ==
    /\ pc \in {"new", "idle", "menu"}
    /\ \E entries \in listings, dt \in steps :
        /\ now + dt <= MaxClock
        /\ now' = now + dt
        /\ current_time' = now + dt
        /\ pending' = entries
    /\ num_cores' \in {get_num_cores(cpuinfo, stat) : cpuinfo \in counts,
                                                      stat \in counts}
    /\ hz' \in {get_hz(sysconf) : sysconf \in sysconfs}
    /\ new_processes' = EmptyMap
    /\ successfully_loaded' = 0
    /\ history_at_start' = previous_cpu_times
    /\ detail_ok' = {}
    /\ tick_read' = EmptyMap
    /\ os_read' = EmptyMap
    /\ pc' = "loop"
    /\ last' = [op |-> "refresh", result |-> "running"]
    /\ UNCHANGED <<managerVars, os_before, selected_pids>>

\* mutant: an unreadable process fails the whole refresh
RefreshSkipFails ==
    /\ pc = "loop"
    /\ pending # {}
    /\ \E r \in ReadResults : ~r.loaded
    /\ pc' = "idle"
    /\ last' = [op |-> "refresh", result |-> "Err"]
    /\ UNCHANGED <<managerVars, now, loopVars, cycleVars, selected_pids>>

\* mutant: an unreadable process is removed from the live table at once
RefreshSkipRemoves ==
    /\ pc = "loop"
    /\ pending # {}
    /\ LET pid == Min(pending) IN
       \E r \in ReadResults :
        /\ ~r.loaded
        /\ detail_ok' = IF r.all_ok THEN detail_ok \cup {pid} ELSE detail_ok
        /\ pending' = pending \ {pid}
        /\ processes' = MapRetain(processes, DOMAIN processes \ {pid})
    /\ UNCHANGED <<privilege, previous_cpu_times, now, pc, new_processes,
                   successfully_loaded, current_time, num_cores, hz,
                   history_at_start, tick_read, os_read, os_before,
                   selected_pids, last>>

\* one iteration whose entry is Err, or whose Process::try_from fails
RefreshSkip ==
    /\ pc = "loop"
    /\ pending # {}
    /\ LET pid == Min(pending) IN
       \E r \in ReadResults :
        /\ ~r.loaded
        /\ detail_ok' = IF r.all_ok THEN detail_ok \cup {pid} ELSE detail_ok
        /\ pending' = pending \ {pid}
    /\ UNCHANGED <<managerVars, now, pc, new_processes, successfully_loaded,
                   current_time, num_cores, hz, history_at_start, tick_read,
                   os_read, os_before, selected_pids, last>>

\* one iteration whose Process::try_from succeeds.  ppids, starts: the
\* parent pids and start times (in ticks) /proc/[pid]/stat may report;
\* uptimes: the seconds /proc/uptime may report
RefreshLoad(ppids, tickReads, starts, uptimes) ==
    /\ pc = "loop"
    /\ pending # {}
    /\ LET pid == Min(pending) IN
       \E r \in ReadResults, ppid \in ppids, read \in tickReads,
          starttime \in starts, system_uptime_secs \in uptimes :
        LET s == IF pid \in DOMAIN previous_cpu_times
                 THEN next_sample(previous_cpu_times, pid, read, current_time,
                                  num_cores, hz)
                 ELSE first_sample(previous_cpu_times, pid, read, current_time)
        IN
        /\ previous_cpu_times' = s.history
        /\ new_processes' =
              MapInsert(new_processes, pid,
                        Process(ppid, s.cpu_percent,
                                calculate_uptime(starttime, system_uptime_secs,
                                                 hz)))
        /\ r.loaded
        /\ detail_ok' = IF r.all_ok THEN detail_ok \cup {pid} ELSE detail_ok
        /\ tick_read' = MapInsert(tick_read, pid, read)
        /\ os_read' = MapInsert(os_read, pid,
                                [ppid |-> ppid, starttime |-> starttime])
        /\ pending' = pending \ {pid}
    /\ successfully_loaded' = successfully_loaded + 1
    /\ UNCHANGED <<privilege, processes, now, pc, current_time, num_cores, hz,
                   history_at_start, os_before, selected_pids, last>>

\* mutant: the new records are merged into the old table
RefreshCommitMerge ==
    /\ pc = "loop"
    /\ pending = {}
    /\ previous_cpu_times' = MapRetain(previous_cpu_times, DOMAIN new_processes)
    /\ processes' = [p \in DOMAIN processes \cup DOMAIN new_processes |->
                        IF p \in DOMAIN new_processes THEN new_processes[p]
                        ELSE processes[p]]
    /\ last' = [op |-> "refresh", result |-> "Ok", value |-> successfully_loaded]
    /\ pc' = "idle"
    /\ new_processes' = EmptyMap
    /\ successfully_loaded' = 0
    /\ num_cores' = DefaultCores
    /\ hz' = DefaultHz
    /\ os_before' = os_read
    /\ os_read' = EmptyMap
    /\ UNCHANGED <<privilege, now, pending, current_time, history_at_start,
                   detail_ok, tick_read, selected_pids>>

\* mutant: the history is not pruned
RefreshCommitNoPrune ==
    /\ pc = "loop"
    /\ pending = {}
    /\ processes' = new_processes
    /\ last' = [op |-> "refresh", result |-> "Ok", value |-> successfully_loaded]
    /\ pc' = "idle"
    /\ new_processes' = EmptyMap
    /\ successfully_loaded' = 0
    /\ num_cores' = DefaultCores
    /\ hz' = DefaultHz
    /\ os_before' = os_read
    /\ os_read' = EmptyMap
    /\ UNCHANGED <<privilege, previous_cpu_times, now, pending, current_time,
                   history_at_start, detail_ok, tick_read, selected_pids>>

\* after the loop: prune the history, swap the table in, return Ok
RefreshCommit ==
    /\ pc = "loop"
    /\ pending = {}
    /\ previous_cpu_times' = MapRetain(previous_cpu_times, DOMAIN new_processes)
    /\ processes' = new_processes
    /\ last' = [op |-> "refresh", result |-> "Ok", value |-> successfully_loaded]
    /\ pc' = "idle"
    /\ new_processes' = EmptyMap
    /\ successfully_loaded' = 0
    /\ num_cores' = DefaultCores
    /\ hz' = DefaultHz
    /\ os_before' = os_read
    /\ os_read' = EmptyMap
    /\ UNCHANGED <<privilege, now, pending, current_time, history_at_start,
                   detail_ok, tick_read, selected_pids>>

(***************************************************************************)
(* permissions.rs, operations.rs                                           *)
(*                                                                         *)
(* An operation yields [result, calls]: the value it returns and the OS    *)
(* calls it issued, in order.  os is the outcome the OS gives the call     *)
(* ("Ok", or an errno), used only when the call is issued.                 *)
(***************************************************************************)
OsOutcomes == {"Ok", "ESRCH"}
NiceValues == {-20, 0, 20}

Ok == [kind |-> "Ok", pid |-> 0]
PermissionDenied == [kind |-> "PermissionDenied", pid |-> 0]
OsError(pid) == [kind |-> "OsError", pid |-> pid]

\* mutant: the privilege check lets every session through
check_admin_privilege_always(priv) == TRUE

\* check_admin_privilege: TRUE stands for Ok(())
check_admin_privilege(priv) == priv = "Admin"

OsCall(name, pid, arg, os) == [call |-> name, pid |-> pid, arg |-> arg, os |-> os]

kill_process(priv, pid, os) ==
    IF ~check_admin_privilege(priv)
    THEN [result |-> PermissionDenied, calls |-> <<>>]
    ELSE [result |-> IF os = "Ok" THEN Ok ELSE OsError(pid),
          calls |-> <<OsCall("kill", pid, "SIGKILL", os)>>]

terminate_process(priv, pid, os) ==
    IF ~check_admin_privilege(priv)
    THEN [result |-> PermissionDenied, calls |-> <<>>]
    ELSE [result |-> IF os = "Ok" THEN Ok ELSE OsError(pid),
          calls |-> <<OsCall("kill", pid, "SIGTERM", os)>>]

pause_process(priv, pid, os) ==
    IF ~check_admin_privilege(priv)
    THEN [result |-> PermissionDenied, calls |-> <<>>]
    ELSE [result |-> IF os = "Ok" THEN Ok ELSE OsError(pid),
          calls |-> <<OsCall("kill", pid, "SIGSTOP", os)>>]

resume_process(priv, pid, os) ==
    IF ~check_admin_privilege(priv)
    THEN [result |-> PermissionDenied, calls |-> <<>>]
    ELSE [result |-> IF os = "Ok" THEN Ok ELSE OsError(pid),
          calls |-> <<OsCall("kill", pid, "SIGCONT", os)>>]

\* mutant: a rejected call is tried once more
set_priority_retry(priv, pid, nice_value, os) ==
    IF ~check_admin_privilege(priv)
    THEN [result |-> PermissionDenied, calls |-> <<>>]
    ELSE [result |-> IF os = "Ok" THEN Ok ELSE OsError(pid),
          calls |-> IF os = "Ok"
                    THEN <<OsCall("setpriority", pid, nice_value, os)>>
                    ELSE <<OsCall("setpriority", pid, nice_value, os),
                           OsCall("setpriority", pid, nice_value, os)>>]

set_priority(priv, pid, nice_value, os) ==
    IF ~check_admin_privilege(priv)
    THEN [result |-> PermissionDenied, calls |-> <<>>]
    ELSE [result |-> IF os = "Ok" THEN Ok ELSE OsError(pid),
          calls |-> <<OsCall("setpriority", pid, nice_value, os)>>]

ControlOps == {"kill_process", "terminate_process", "pause_process",
               "resume_process", "set_priority"}

\* mutant: a killed process is taken out of the table at once
KillProcessForgets ==
    /\ pc = "idle"
    /\ \E pid \in Targets, os \in OsOutcomes :
        LET r == kill_process(privilege, pid, os) IN
        /\ last' = [op |-> "kill_process", pid |-> pid, result |-> r.result,
                    calls |-> r.calls]
        /\ processes' = IF r.result = Ok
                        THEN MapRetain(processes, DOMAIN processes \ {pid})
                        ELSE processes
    /\ UNCHANGED <<privilege, previous_cpu_times, now, pc, loopVars,
                   cycleVars, selected_pids>>

\* the single-target operations as the front ends call them
KillProcess ==
    /\ pc = "idle"
    /\ \E pid \in Targets, os \in OsOutcomes :
        LET r == kill_process(privilege, pid, os) IN
        last' = [op |-> "kill_process", pid |-> pid, result |-> r.result,
                 calls |-> r.calls]
    /\ UNCHANGED <<managerVars, now, pc, loopVars, cycleVars, selected_pids>>

TerminateProcess ==
    /\ pc = "idle"
    /\ \E pid \in Targets, os \in OsOutcomes :
        LET r == terminate_process(privilege, pid, os) IN
        last' = [op |-> "terminate_process", pid |-> pid, result |-> r.result,
                 calls |-> r.calls]
    /\ UNCHANGED <<managerVars, now, pc, loopVars, cycleVars, selected_pids>>

PauseProcess ==
    /\ pc = "idle"
    /\ \E pid \in Targets, os \in OsOutcomes :
        LET r == pause_process(privilege, pid, os) IN
        last' = [op |-> "pause_process", pid |-> pid, result |-> r.result,
                 calls |-> r.calls]
    /\ UNCHANGED <<managerVars, now, pc, loopVars, cycleVars, selected_pids>>

ResumeProcess ==
    /\ pc = "idle"
    /\ \E pid \in Targets, os \in OsOutcomes :
        LET r == resume_process(privilege, pid, os) IN
        last' = [op |-> "resume_process", pid |-> pid, result |-> r.result,
                 calls |-> r.calls]
    /\ UNCHANGED <<managerVars, now, pc, loopVars, cycleVars, selected_pids>>

SetPriority ==
    /\ pc = "idle"
    /\ \E pid \in Targets, nice \in NiceValues, os \in OsOutcomes :
        LET r == set_priority(privilege, pid, nice, os) IN
        last' = [op |-> "set_priority", pid |-> pid, nice |-> nice,
                 result |-> r.result, calls |-> r.calls]
    /\ UNCHANGED <<managerVars, now, pc, loopVars, cycleVars, selected_pids>>

(***************************************************************************)
(* gui/app.rs: selection and batch operations                              *)
(***************************************************************************)
\* the orders in which a HashSet may be iterated into a Vec
Orders(S) ==
    {s \in [1..Cardinality(S) -> S] : \A i, j \in 1..Cardinality(S) :
                                          s[i] = s[j] => i = j}

\* the operation a batch applies to one target
apply_op(op, priv, pid, os) ==
    CASE op = "kill_process" -> kill_process(priv, pid, os)
      [] op = "terminate_process" -> terminate_process(priv, pid, os)
      [] op = "pause_process" -> pause_process(priv, pid, os)
      [] op = "resume_process" -> resume_process(priv, pid, os)

BatchStart == [successful |-> 0, failed |-> 0, attempts |-> <<>>, calls |-> <<>>]

\* mutant: failures are not counted
batch_step_uncounted(acc, pid, r) ==
    [successful |-> acc.successful + (IF r.result = Ok THEN 1 ELSE 0),
     failed |-> acc.failed,
     attempts |-> Append(acc.attempts, pid),
     calls |-> acc.calls \o r.calls]

\* the body of "for pid in &pids": one target, counted as Ok or Err
batch_step(acc, pid, r) ==
    [successful |-> acc.successful + (IF r.result = Ok THEN 1 ELSE 0),
     failed |-> acc.failed + (IF r.result = Ok THEN 0 ELSE 1),
     attempts |-> Append(acc.attempts, pid),
     calls |-> acc.calls \o r.calls]

\* mutant: the loop stops at the first target that fails
RECURSIVE batch_loop_abort(_, _, _, _, _)
batch_loop_abort(op, priv, pids, oss, n) ==
    IF n = 0 THEN BatchStart
    ELSE LET acc == batch_loop_abort(op, priv, pids, oss, n - 1) IN
         IF acc.failed > 0 THEN acc
         ELSE batch_step(acc, pids[n], apply_op(op, priv, pids[n], oss[n]))

\* the loop of a batch over the first n targets; oss[i]: the OS outcome of
\* the call for pids[i]
RECURSIVE batch_loop(_, _, _, _, _)
batch_loop(op, priv, pids, oss, n) ==
    IF n = 0 THEN BatchStart
    ELSE batch_step(batch_loop(op, priv, pids, oss, n - 1), pids[n],
                    apply_op(op, priv, pids[n], oss[n]))

\* what the batch leaves in success_message or error_message
batch_message(acc) ==
    IF acc.failed = 0
    THEN [kind |-> "success", successful |-> acc.successful]
    ELSE [kind |-> "error", successful |-> acc.successful, failed |-> acc.failed]

\* mutant: the batch kills unconditionally whatever force says
batch_kill_always_force(priv, pids, force, oss) ==
    batch_loop("kill_process", priv, pids, oss, Len(pids))

\* batch_kill: kill_process for every pid if force, else terminate_process
batch_kill(priv, pids, force, oss) ==
    batch_loop(IF force THEN "kill_process" ELSE "terminate_process",
               priv, pids, oss, Len(pids))

batch_pause(priv, pids, oss) == batch_loop("pause_process", priv, pids, oss, Len(pids))

batch_resume(priv, pids, oss) == batch_loop("resume_process", priv, pids, oss, Len(pids))

BatchOps == {"batch_kill", "batch_pause", "batch_resume"}

BatchOutcome(name, pids, force, acc) ==
    [op |-> name, pids |-> pids, force |-> force,
     successful |-> acc.successful, failed |-> acc.failed,
     attempts |-> acc.attempts, calls |-> acc.calls,
     message |-> batch_message(acc)]

\* toggle_selection, on a row of the displayed table
ToggleSelection ==
    /\ pc = "idle"
    /\ \E pid \in DOMAIN processes :
        selected_pids' = IF pid \in selected_pids
                         THEN selected_pids \ {pid}
                         ELSE selected_pids \cup {pid}
    /\ UNCHANGED <<managerVars, now, pc, loopVars, cycleVars, last>>

\* the Operations menu: a batch over the selection, which it clears; the
\* menu handler then refreshes
BatchKill ==
    /\ pc = "idle"
    /\ selected_pids # {}
    /\ \E pids \in Orders(selected_pids), force \in BOOLEAN,
          oss \in [1..Cardinality(selected_pids) -> OsOutcomes] :
        last' = BatchOutcome("batch_kill", pids, force,
                             batch_kill(privilege, pids, force, oss))
    /\ selected_pids' = {}
    /\ pc' = "menu"
    /\ UNCHANGED <<managerVars, now, loopVars, cycleVars>>

BatchPause ==
    /\ pc = "idle"
    /\ selected_pids # {}
    /\ \E pids \in Orders(selected_pids),
          oss \in [1..Cardinality(selected_pids) -> OsOutcomes] :
        last' = BatchOutcome("batch_pause", pids, FALSE,
                             batch_pause(privilege, pids, oss))
    /\ selected_pids' = {}
    /\ pc' = "menu"
    /\ UNCHANGED <<managerVars, now, loopVars, cycleVars>>

BatchResume ==
    /\ pc = "idle"
    /\ selected_pids # {}
    /\ \E pids \in Orders(selected_pids),
          oss \in [1..Cardinality(selected_pids) -> OsOutcomes] :
        last' = BatchOutcome("batch_resume", pids, FALSE,
                             batch_resume(privilege, pids, oss))
    /\ selected_pids' = {}
    /\ pc' = "menu"
    /\ UNCHANGED <<managerVars, now, loopVars, cycleVars>>

(***************************************************************************)
(* batch.rs: the tree builder.  order lists the keys of the table in the   *)
(* order the HashMap iterates them.                                        *)
(***************************************************************************)
\* ProcessNode::new
ProcessNode(process_id, process, children) ==
    [process_id |-> process_id, process |-> process, children |-> children]

\* mutant: the root is indexed under its parent like every other process
children_map_with_root(table, root_pid, order, ppid) ==
    SelectSeq(order, LAMBDA p : table[p].parent_id = Some(ppid))

\* children_map.get(&ppid): the non-root processes whose parent_id is ppid,
\* in iteration order
children_map(table, root_pid, order, ppid) ==
    SelectSeq(order,
              LAMBDA p : p # root_pid /\ table[p].parent_id = Some(ppid))

\* mutant: children are attached without their own subtrees
build_node_flat(table, root_pid, order, pid) ==
    LET children == children_map(table, root_pid, order, pid) IN
    ProcessNode(pid, table[pid],
                [i \in 1..Len(children) |->
                    ProcessNode(children[i], table[children[i]], <<>>)])

RECURSIVE build_node(_, _, _, _)

\* mutant: every child is attached twice
build_node_twice(table, root_pid, order, pid) ==
    LET children == children_map(table, root_pid, order, pid)
        twice == children \o children
    IN ProcessNode(pid, table[pid],
                   [i \in 1..Len(twice) |->
                       build_node(table, root_pid, order, twice[i])])

\* build_node: the node of pid with its subtree attached
build_node(table, root_pid, order, pid) ==
    LET children == children_map(table, root_pid, order, pid) IN
    ProcessNode(pid, table[pid],
                [i \in 1..Len(children) |->
                    build_node(table, root_pid, order, children[i])])

\* mutant: a missing root is reported as an error
build_process_tree_err(table, root_pid, order) ==
    IF root_pid \notin DOMAIN table
    THEN [kind |-> "Err", pid |-> root_pid]
    ELSE build_node(table, root_pid, order, root_pid)

build_process_tree(table, root_pid, order) ==
    IF root_pid \notin DOMAIN table
    THEN None
    ELSE build_node(table, root_pid, order, root_pid)

\* Manager::build_process_tree
BuildProcessTree ==
    /\ pc = "idle"
    /\ \E order \in Orders(DOMAIN processes) :
        last' = [op |-> "build_process_tree",
                 result |-> build_process_tree(processes, RootPid, order)]
    /\ UNCHANGED <<managerVars, now, pc, loopVars, cycleVars, selected_pids>>

\* the stack search of kill_descendants: pop the last node, push its children
RECURSIVE find_node(_, _)
find_node(stack, parent_pid) ==
    IF stack = <<>> THEN None
    ELSE LET current == stack[Len(stack)]
             rest == SubSeq(stack, 1, Len(stack) - 1)
         IN IF current.process_id = parent_pid
            THEN current
            ELSE find_node(rest \o current.children, parent_pid)

RECURSIVE get_descendant_pids(_)
RECURSIVE descendants_upto(_, _)

\* mutant: all children of a node are listed before any grandchild
RECURSIVE get_descendant_pids_level(_)
RECURSIVE level_below(_, _)
level_below(node, n) ==
    IF n = 0 THEN <<>>
    ELSE level_below(node, n - 1)
            \o get_descendant_pids_level(node.children[n])

get_descendant_pids_level(node) ==
    [i \in 1..Len(node.children) |-> node.children[i].process_id]
        \o level_below(node, Len(node.children))

\* get_descendant_pids: each child followed by its own descendants
get_descendant_pids(node) == descendants_upto(node, Len(node.children))

\* "for child in &node.children", over the first n children
descendants_upto(node, n) ==
    IF n = 0 THEN <<>>
    ELSE descendants_upto(node, n - 1)
            \o <<node.children[n].process_id>>
            \o get_descendant_pids(node.children[n])

\* mutant: the list is walked front to back
Reverse_forward(s) == s

\* pids_to_kill.iter().rev()
Reverse(s) == [i \in 1..Len(s) |-> s[Len(s) + 1 - i]]

\* the keys of a table in ascending order
RECURSIVE Ascending(_)
Ascending(S) ==
    IF S = {} THEN <<>> ELSE <<Min(S)>> \o Ascending(S \ {Min(S)})

\* two of the orders a HashMap may be iterated in: ascending and descending
KeyOrders(S) ==
    {Ascending(S),
     [i \in 1..Cardinality(S) |-> Ascending(S)[Cardinality(S) + 1 - i]]}

\* Ok(successful_kills) and the Err values of kill_descendants
Killed(pids) == [kind |-> "Ok", pids |-> pids]
NoTree == [kind |-> "NoTree", pid |-> 0]
NotFound(pid) == [kind |-> "NotFound", pid |-> pid]
KillFailed(killed, failed) ==
    [kind |-> "KillFailed", killed |-> killed, failed |-> failed]

\* mutant: a failed kill is not counted
RECURSIVE kill_loop_uncounted(_, _, _, _)
kill_loop_uncounted(priv, pids, failing, n) ==
    IF n = 0
    THEN [successful_kills |-> <<>>, failed_kills |-> 0, calls |-> <<>>]
    ELSE LET acc == kill_loop_uncounted(priv, pids, failing, n - 1)
             r == kill_process(priv, pids[n],
                               IF pids[n] \in failing THEN "ESRCH" ELSE "Ok")
         IN [successful_kills |-> IF r.result = Ok
                                  THEN Append(acc.successful_kills, pids[n])
                                  ELSE acc.successful_kills,
             failed_kills |-> acc.failed_kills,
             calls |-> acc.calls \o r.calls]

\* mutant: the loop gives up at the first kill that fails
RECURSIVE kill_loop_abort(_, _, _, _)
kill_loop_abort(priv, pids, failing, n) ==
    IF n = 0
    THEN [successful_kills |-> <<>>, failed_kills |-> 0, calls |-> <<>>]
    ELSE LET acc == kill_loop_abort(priv, pids, failing, n - 1)
             r == kill_process(priv, pids[n],
                               IF pids[n] \in failing THEN "ESRCH" ELSE "Ok")
         IN IF acc.failed_kills > 0 THEN acc
            ELSE [successful_kills |-> IF r.result = Ok
                                       THEN Append(acc.successful_kills,
                                                   pids[n])
                                       ELSE acc.successful_kills,
                  failed_kills |-> IF r.result = Ok THEN 0 ELSE 1,
                  calls |-> acc.calls \o r.calls]

\* the kill loop over the first n pids of the reversed list; the OS rejects
\* the signal for the pids in failing
RECURSIVE kill_loop(_, _, _, _)
kill_loop(priv, pids, failing, n) ==
    IF n = 0
    THEN [successful_kills |-> <<>>, failed_kills |-> 0, calls |-> <<>>]
    ELSE LET acc == kill_loop(priv, pids, failing, n - 1)
             r == kill_process(priv, pids[n],
                               IF pids[n] \in failing THEN "ESRCH" ELSE "Ok")
         IN [successful_kills |-> IF r.result = Ok
                                  THEN Append(acc.successful_kills, pids[n])
                                  ELSE acc.successful_kills,
             failed_kills |-> acc.failed_kills
                                + (IF r.result = Ok THEN 0 ELSE 1),
             calls |-> acc.calls \o r.calls]

\* mutant: the parent is killed last, after its descendants
kill_descendants_and_parent(priv, table, root_pid, order, parent_pid, failing) ==
    IF ~check_admin_privilege(priv)
    THEN [result |-> PermissionDenied, calls |-> <<>>]
    ELSE LET root_node == build_process_tree(table, root_pid, order) IN
         IF root_node = None
         THEN [result |-> NoTree, calls |-> <<>>]
         ELSE LET start_node == find_node(<<root_node>>, parent_pid) IN
              IF start_node = None
              THEN [result |-> NotFound(parent_pid), calls |-> <<>>]
              ELSE LET pids_to_kill == get_descendant_pids(start_node)
                       k == kill_loop(priv,
                                      Append(Reverse(pids_to_kill),
                                             parent_pid),
                                      failing, Len(pids_to_kill) + 1)
                   IN [result |-> IF k.failed_kills > 0
                                  THEN KillFailed(Len(k.successful_kills),
                                                  k.failed_kills)
                                  ELSE Killed(k.successful_kills),
                       calls |-> k.calls]

\* mutant: the tree is built and searched before the privilege is checked
kill_descendants_tree_first(priv, table, root_pid, order, parent_pid, failing) ==
    LET root_node == build_process_tree(table, root_pid, order) IN
    IF root_node = None
    THEN [result |-> NoTree, calls |-> <<>>]
    ELSE LET start_node == find_node(<<root_node>>, parent_pid) IN
         IF start_node = None
         THEN [result |-> NotFound(parent_pid), calls |-> <<>>]
         ELSE IF ~check_admin_privilege(priv)
         THEN [result |-> PermissionDenied, calls |-> <<>>]
         ELSE LET pids_to_kill == get_descendant_pids(start_node)
                  k == kill_loop(priv, Reverse(pids_to_kill), failing,
                                 Len(pids_to_kill))
              IN [result |-> IF k.failed_kills > 0
                             THEN KillFailed(Len(k.successful_kills),
                                             k.failed_kills)
                             ELSE Killed(k.successful_kills),
                  calls |-> k.calls]

\* kill_descendants: the privilege check, the tree, the search for the node
\* of parent_pid, then the kill loop over its descendants
kill_descendants(priv, table, root_pid, order, parent_pid, failing) ==
    IF ~check_admin_privilege(priv)
    THEN [result |-> PermissionDenied, calls |-> <<>>]
    ELSE LET root_node == build_process_tree(table, root_pid, order) IN
         IF root_node = None
         THEN [result |-> NoTree, calls |-> <<>>]
         ELSE LET start_node == find_node(<<root_node>>, parent_pid) IN
              IF start_node = None
              THEN [result |-> NotFound(parent_pid), calls |-> <<>>]
              ELSE LET pids_to_kill == get_descendant_pids(start_node)
                       k == kill_loop(priv, Reverse(pids_to_kill), failing,
                                      Len(pids_to_kill))
                   IN [result |-> IF k.failed_kills > 0
                                  THEN KillFailed(Len(k.successful_kills),
                                                  k.failed_kills)
                                  ELSE Killed(k.successful_kills),
                       calls |-> k.calls]

\* kill_descendants on any pid the caller names; orders: the orders in
\* which the table may be iterated.  Like every command of the front ends
\* it is followed by a refresh.
KillDescendants(targets, orders) ==
    /\ pc = "idle"
    /\ \E parent_pid \in targets, order \in orders,
          failing \in SUBSET DOMAIN processes :
        LET r == kill_descendants(privilege, processes, RootPid, order,
                                  parent_pid, failing) IN
        last' = [op |-> "kill_descendants", pid |-> parent_pid,
                 result |-> r.result, calls |-> r.calls]
    /\ pc' = "menu"
    /\ UNCHANGED <<managerVars, now, loopVars, cycleVars, selected_pids>>

\* The calls of build_node made for the subtree of pid, in the order they
\* are entered.  depth is the depth of the call stack; a stack deeper than
\* the table has processes means a pid is being visited again, and the
\* trace is cut there (capped).
RECURSIVE build_node_calls(_, _, _, _, _)
RECURSIVE attach_children(_, _, _, _, _, _)
build_node_calls(table, root_pid, order, pid, depth) ==
    IF depth > Cardinality(DOMAIN table)
    THEN [calls |-> <<pid>>, capped |-> TRUE]
    ELSE LET children == children_map(table, root_pid, order, pid)
             below == attach_children(table, root_pid, order, children,
                                      Len(children), depth)
         IN [calls |-> <<pid>> \o below.calls, capped |-> below.capped]

\* "for child_process in children": the calls made for the first n children
attach_children(table, root_pid, order, children, n, depth) ==
    IF n = 0 THEN [calls |-> <<>>, capped |-> FALSE]
    ELSE LET before == attach_children(table, root_pid, order, children,
                                       n - 1, depth)
             here == build_node_calls(table, root_pid, order, children[n],
                                      depth + 1)
         IN [calls |-> before.calls \o here.calls,
             capped |-> before.capped \/ here.capped]

\* build_process_tree on a table that holds the root, observed through the
\* recursion of build_node
BuildNode ==
    /\ pc = "idle"
    /\ RootPid \in DOMAIN processes
    /\ \E order \in Orders(DOMAIN processes) :
        LET t == build_node_calls(processes, RootPid, order, RootPid, 1) IN
        last' = [op |-> "build_node", calls |-> t.calls, capped |-> t.capped]
    /\ UNCHANGED <<managerVars, now, pc, loopVars, cycleVars, selected_pids>>

\* Manager::processes: the records of the table, handed out by reference
ProcessesQuery ==
    /\ pc = "idle"
    /\ last' = [op |-> "processes",
                result |-> {processes[p] : p \in DOMAIN processes}]
    /\ UNCHANGED <<managerVars, now, pc, loopVars, cycleVars, selected_pids>>

(***************************************************************************)
(* The refresh engine on its own, driven by an Admin session (the session  *)
(* both front ends construct), with every process reporting parent 0.      *)
(***************************************************************************)
InitAdmin == Init /\ privilege = "Admin"

NextRefresh ==
    \/ RefreshEnumFail
    \/ RefreshBegin(SUBSET Pids, TimeSteps, SysconfValues, LineCounts)
    \/ RefreshSkip
    \/ RefreshLoad({0}, TickReads, {0}, {0})
    \/ RefreshCommit

SpecRefresh == InitAdmin /\ [][NextRefresh]_vars

(***************************************************************************)
(* The other specifications run the same refresh over processes whose      *)
(* tick reads fail (no CPU history), with the clock standing still and     *)
(* the system constants at their usual values.                             *)
(***************************************************************************)
PlainRefresh(visible, ppids) ==
    \/ RefreshEnumFail
    \/ RefreshBegin(SUBSET visible, {0}, {DefaultHz}, {DefaultCores})
    \/ RefreshSkip
    \/ RefreshLoad(ppids, {TickErr}, {0}, {0})
    \/ RefreshCommit

(***************************************************************************)
(* The dispatcher: single-target control operations on a manager of        *)
(* either privilege.                                                       *)
(***************************************************************************)
NextOps ==
    \/ PlainRefresh(Targets, {0})
    \/ KillProcess
    \/ TerminateProcess
    \/ PauseProcess
    \/ ResumeProcess
    \/ SetPriority

SpecOps == Init /\ [][NextOps]_vars

(***************************************************************************)
(* The batch operations of the front end over its selection.               *)
(***************************************************************************)
NextBatch ==
    \/ PlainRefresh(Targets, {0})
    \/ ToggleSelection
    \/ BatchKill
    \/ BatchPause
    \/ BatchResume

SpecBatch == Init /\ [][NextBatch]_vars

(***************************************************************************)
(* The tree builder over every table of up to MaxTreePid processes, each   *)
(* reporting any parent pid.                                               *)
(***************************************************************************)
NextTree ==
    \/ PlainRefresh(TreePids, TreePpids)
    \/ BuildProcessTree

SpecTree == InitAdmin /\ [][NextTree]_vars

(***************************************************************************)
(* One call of kill_descendants on a manager of either privilege.  The     *)
(* table is the one loaded by the refresh of Manager::new: up to           *)
(* MaxKillPid processes whose parents are among the first MaxKillParent    *)
(* pids, iterated in ascending or descending order.                        *)
(***************************************************************************)
NextKill ==
    \/ (pc \in {"new", "loop"} /\ PlainRefresh(KillPids, KillPpids))
    \/ KillDescendants(KillPids, KeyOrders(DOMAIN processes))

SpecKill == Init /\ [][NextKill]_vars

(***************************************************************************)
(* The whole manager as the command loop of main drives it: a refresh,     *)
(* then one command.  The tables hold up to MaxPid processes, all children *)
(* of the root, with CPU ticks that are readable or not.                   *)
(***************************************************************************)
Command ==
    \/ KillProcess
    \/ TerminateProcess
    \/ PauseProcess
    \/ ResumeProcess
    \/ SetPriority
    \/ BatchKill
    \/ BatchPause
    \/ BatchResume
    \/ KillDescendants(Pids, Orders(DOMAIN processes))
    \/ BuildProcessTree
    \/ ProcessesQuery

NextManager ==
    \/ RefreshEnumFail
    \/ RefreshBegin(SUBSET Pids, {0}, {DefaultHz}, {DefaultCores})
    \/ RefreshSkip
    \/ RefreshLoad({RootPid}, {TickErr, TickOk(DefaultHz)}, {0}, {0})
    \/ RefreshCommit
    \/ ToggleSelection
    \/ (last.op = "refresh" /\ Command)

SpecManager == Init /\ [][NextManager]_vars

(***************************************************************************)
(* Refresh after refresh over an operating system that lists the same pids *)
(* at every enumeration.  A process reports no parent or the root, started *)
(* at boot or one second later; the system uptime is the monotonic clock;  *)
(* any read of any cycle may fail.                                         *)
(***************************************************************************)
StartTimes == {0, DefaultHz}

NextSteady ==
    \/ RefreshEnumFail
    \/ RefreshBegin({Pids}, TimeSteps, {DefaultHz}, {DefaultCores})
    \/ RefreshSkip
    \/ RefreshLoad({0, RootPid}, {TickErr}, StartTimes, {now})
    \/ RefreshCommit

SpecSteady == InitAdmin /\ [][NextSteady]_vars

(***************************************************************************)
(* The recursion of the tree builder over the same tables.                 *)
(***************************************************************************)
NextAttach ==
    \/ PlainRefresh(TreePids, TreePpids)
    \/ BuildNode

SpecAttach == InitAdmin /\ [][NextAttach]_vars

TypeOK ==
    /\ privilege \in Privileges
    /\ DOMAIN processes \subseteq Pids \cup Targets \cup TreePids \cup KillPids
    /\ DOMAIN previous_cpu_times \subseteq Pids
    /\ now \in 0..MaxClock
    /\ pc \in {"new", "idle", "loop", "menu"}

(***************************************************************************)
(* Properties                                                              *)
(***************************************************************************)
RefreshSucceeded == last.op = "refresh" /\ last.result = "Ok"

\* C1: a control operation (kill_process, terminate_process, pause_process,
\* resume_process, set_priority) invoked by a Normal session returns the
\* permission-denied failure and issues no OS call, whatever its pid and
\* nice value.
C1_NormalDeniedBeforeOsCall ==
    (last.op \in ControlOps /\ privilege = "Normal")
        => (last.result = PermissionDenied /\ last.calls = <<>>)

C1_Witness ==
    /\ privilege = "Normal"
    /\ last.op = "set_priority"
    /\ last.result = PermissionDenied

\* C2: a refresh whose enumeration fails returns a failure and leaves the
\* process table and the CPU-time history exactly as they were.
C2_FailedRefreshChangesNothing ==
    [][(pc \in {"new", "idle", "menu"} /\ last'.op = "refresh"
            /\ last'.result = "Err")
        => (processes' = processes
            /\ previous_cpu_times' = previous_cpu_times)]_vars

C2_Witness ==
    /\ last.op = "refresh"
    /\ last.result = "Err"
    /\ processes # EmptyMap
    /\ previous_cpu_times # EmptyMap

\* C3: after a successful refresh the table holds a pid if and only if that
\* pid's enumeration entry and its detailed read (stat, status, uptime)
\* succeeded in that cycle.
C3_TableIffReadThisCycle ==
    RefreshSucceeded => DOMAIN processes = detail_ok

C3_Witness ==
    /\ RefreshSucceeded
    /\ detail_ok # {}
    /\ DOMAIN history_at_start \ detail_ok # {}

\* C4: the table changes only in the step that ends a refresh, and then it
\* becomes the completely assembled new map: while the new map is being
\* assembled the old table stays as it was.
C4_TableSwappedWhole ==
    [][processes' # processes
        => (/\ pc = "loop"
            /\ pending = {}
            /\ pc' = "idle"
            /\ last'.op = "refresh"
            /\ last'.result = "Ok"
            /\ processes' = new_processes
            /\ DOMAIN new_processes = detail_ok)]_vars

C4_Witness ==
    /\ pc = "loop"
    /\ pending # {}
    /\ new_processes # EmptyMap
    /\ processes # EmptyMap
    /\ DOMAIN processes # DOMAIN new_processes

\* C5: a batch operation attempts its action on every pid of its list exactly
\* once and in order, whether or not earlier targets failed; for an Admin
\* session every attempt is one OS call.
C5_BatchAttemptsEveryTarget ==
    last.op \in BatchOps
        => (/\ last.attempts = last.pids
            /\ privilege = "Admin" =>
                 (/\ Len(last.calls) = Len(last.pids)
                  /\ \A i \in 1..Len(last.pids) :
                        last.calls[i].pid = last.pids[i]))

C5_Witness ==
    /\ last.op = "batch_pause"
    /\ Len(last.pids) = 3
    /\ Len(last.calls) = 3
    /\ last.calls[1].os # "Ok"
    /\ last.calls[3].os = "Ok"

OkCalls(calls) == {i \in 1..Len(calls) : calls[i].os = "Ok"}

C7_FirstObservationIsZero ==
    RefreshSucceeded =>
        \A pid \in DOMAIN processes \ DOMAIN history_at_start :
            /\ processes[pid].cpu_percent = Zero
            /\ tick_read[pid].ok =>
                 (/\ pid \in DOMAIN previous_cpu_times
                  /\ previous_cpu_times[pid] =
                        <<tick_read[pid].ticks, current_time>>)

C7_Witness ==
    /\ RefreshSucceeded
    /\ current_time > 0
    /\ \E pid \in DOMAIN processes \ DOMAIN history_at_start :
        /\ tick_read[pid] = TickOk(200)
        /\ previous_cpu_times[pid] = <<200, current_time>>
        /\ processes[pid].cpu_percent = Zero

\* the pids of the cycle under way that had a previous sample taken
\* earlier than this cycle's timestamp and whose ticks were read
Resampled ==
    {pid \in DOMAIN new_processes :
        /\ pid \in DOMAIN history_at_start
        /\ tick_read[pid].ok
        /\ current_time > history_at_start[pid][2]}

\* ((t1 - t0) / tickFrequency) / (T1 - T0) * 100 / coreCount
ClaimedPercent(t0, T0, t1, T1, tickFrequency, coreCount) ==
    RatDiv(RatMul(RatDiv(RatDiv(RatInt(t1 - t0), RatInt(tickFrequency)),
                         RatInt(T1 - T0)),
                  RatInt(100)),
           RatInt(coreCount))

\* C8 as stated: for a pid with a previous sample (t0 at T0) and a current
\* sample (t1 at T1 > T0) the stored CPU percent is
\* ((t1 - t0) / tickFrequency) / (T1 - T0) * 100 / coreCount.
C8_Original ==
    (pc = "loop" /\ num_cores >= 1) =>
        \A pid \in Resampled :
            new_processes[pid].cpu_percent =
                ClaimedPercent(history_at_start[pid][1], history_at_start[pid][2],
                               tick_read[pid].ticks, current_time, hz, num_cores)

Max(a, b) == IF a >= b THEN a ELSE b

\* C8 amended: the stored CPU percent is the claimed expression with the
\* tick difference t1 - t0 replaced by max(t1 - t0, 0); 100 ticks then 200
\* ticks one second apart at 100 ticks per second on one core give 100.
C8_PercentOfClampedDelta ==
    pc = "loop" =>
        \A pid \in Resampled :
            LET t0 == history_at_start[pid][1]
                T0 == history_at_start[pid][2]
                t1 == tick_read[pid].ticks
            IN /\ new_processes[pid].cpu_percent =
                    ClaimedPercent(0, T0, Max(t1 - t0, 0), current_time, hz,
                                   num_cores)
               /\ (t0 = 100 /\ t1 = 200 /\ current_time - T0 = 1 /\ hz = 100
                        /\ num_cores = 1)
                    => new_processes[pid].cpu_percent = RatInt(100)

C8_Witness ==
    /\ pc = "loop"
    /\ hz = 100
    /\ num_cores = 1
    /\ \E pid \in Resampled :
        /\ history_at_start[pid] = <<100, 0>>
        /\ tick_read[pid] = TickOk(200)
        /\ current_time = 1
        /\ new_processes[pid].cpu_percent = RatInt(100)

\* C9: outside a refresh cycle every pid with a CPU-time history entry is in
\* the process table, so the history holds no more entries than the table.
C9_HistoryWithinTable ==
    pc # "loop" =>
        /\ DOMAIN previous_cpu_times \subseteq DOMAIN processes
        /\ Cardinality(DOMAIN previous_cpu_times)
             <= Cardinality(DOMAIN processes)

C9_Witness ==
    /\ RefreshSucceeded
    /\ DOMAIN history_at_start \ DOMAIN processes # {}
    /\ previous_cpu_times # EmptyMap

RECURSIVE NodesOf(_)
NodesOf(node) ==
    {node} \cup UNION {NodesOf(node.children[i]) : i \in DOMAIN node.children}

ChildPids(node) == {node.children[i].process_id : i \in DOMAIN node.children}

ChainTable ==
    /\ DOMAIN processes = {1, 2, 3}
    /\ processes[1].parent_id = Some(0)
    /\ processes[2].parent_id = Some(1)
    /\ processes[3].parent_id = Some(2)

\* C10: when the root pid is in the table, build_process_tree returns a tree
\* whose root node is the root process and in which the children of every
\* node are exactly the non-root processes of the table whose parent pid is
\* that node's pid, each once; the table {1: root, 2: parent 1, 3: parent 2}
\* gives 1 -> 2 -> 3.
C10_TreeFollowsParentLinks ==
    (last.op = "build_process_tree" /\ RootPid \in DOMAIN processes) =>
        /\ last.result # None
        /\ last.result.process_id = RootPid
        /\ last.result.process = processes[RootPid]
        /\ \A n \in NodesOf(last.result) :
            /\ ChildPids(n) = {p \in DOMAIN processes \ {RootPid} :
                                  processes[p].parent_id
                                    = Some(n.process_id)}
            /\ Len(n.children) = Cardinality(ChildPids(n))
            /\ n.process = processes[n.process_id]
        /\ ChainTable =>
             last.result =
                ProcessNode(1, processes[1],
                    <<ProcessNode(2, processes[2],
                        <<ProcessNode(3, processes[3], <<>>)>>)>>)

C10_Witness ==
    /\ last.op = "build_process_tree"
    /\ ChainTable
    /\ Len(last.result.children) = 1
    /\ Len(last.result.children[1].children) = 1
    /\ last.result.children[1].children[1].process_id = 3

\* C11: when the root pid is not a key of the process table,
\* build_process_tree returns no tree (None), not an error, and leaves the
\* manager (session, table, history) as it was.
C11_NoRootNoTree ==
    [][(pc = "idle" /\ pc' = "idle" /\ last'.op = "build_process_tree"
            /\ RootPid \notin DOMAIN processes)
        => (last'.result = None /\ managerVars' = managerVars)]_vars

C11_Witness ==
    /\ last.op = "build_process_tree"
    /\ RootPid \notin DOMAIN processes
    /\ processes # EmptyMap
    /\ last.result = None

TreePidsOf(result) ==
    IF result = None THEN {} ELSE {n.process_id : n \in NodesOf(result)}

Orphans ==
    {p \in DOMAIN processes :
        \A q \in DOMAIN processes : processes[p].parent_id # Some(q)}

\* C12: every process of the table whose declared parent pid is not in the
\* table (an orphan) is a root-level node of the tree builder's output, and
\* no process of the table is missing from the output.
C12_OrphansSurfaced ==
    last.op = "build_process_tree" =>
        /\ DOMAIN processes \subseteq TreePidsOf(last.result)
        /\ \A p \in Orphans :
              last.result # None /\ last.result.process_id = p

NoDuplicates(s) == \A i, j \in 1..Len(s) : s[i] = s[j] => i = j

\* C13: build_process_tree terminates for every table, also when parent
\* links form cycles (a process that is its own parent, two processes that
\* name each other): build_node is entered at most once per pid and its
\* call stack never grows deeper than the table has processes.
C13_AttachVisitsOnce ==
    last.op = "build_node" =>
        /\ ~last.capped
        /\ NoDuplicates(last.calls)
        /\ Len(last.calls) <= Cardinality(DOMAIN processes)
        /\ last.calls[1] = RootPid

C13_Witness ==
    /\ last.op = "build_node"
    /\ DOMAIN processes = {1, 2, 3}
    /\ processes[1].parent_id = Some(2)
    /\ processes[2].parent_id = Some(1)
    /\ processes[3].parent_id = Some(3)
    /\ last.calls = <<1, 2>>

\* the number of parent links from p up to a, following the links the tree
\* builder follows (the root is nobody's child); 0 when p is not below a
RECURSIVE DepthBelow(_, _, _)
DepthBelow(p, a, fuel) ==
    IF fuel = 0 \/ p = RootPid \/ p \notin DOMAIN processes THEN 0
    ELSE IF processes[p].parent_id = None THEN 0
    ELSE IF processes[p].parent_id = Some(a) THEN 1
    ELSE LET d == DepthBelow(processes[p].parent_id.some, a, fuel - 1)
         IN IF d = 0 THEN 0 ELSE d + 1

Depth(p, a) == DepthBelow(p, a, Cardinality(DOMAIN processes))

Descendants(a) == {p \in DOMAIN processes : Depth(p, a) > 0}

CalledPids(calls) == {calls[i].pid : i \in 1..Len(calls)}

\* kill_descendants got as far as its kill loop
KillLoopRan ==
    /\ last.op = "kill_descendants"
    /\ last.result.kind \in {"Ok", "KillFailed"}

\* C14: kill_descendants(pid) sends SIGKILL to every descendant of pid, and
\* to each of them before any of its own ancestors below pid: a child is
\* always signalled before its parent.
C14_ChildBeforeParent ==
    KillLoopRan =>
        /\ CalledPids(last.calls) = Descendants(last.pid)
        /\ \A i, j \in 1..Len(last.calls) :
              Depth(last.calls[i].pid, last.calls[j].pid) > 0 => i < j
        /\ \A i \in 1..Len(last.calls) :
              last.calls[i].call = "kill" /\ last.calls[i].arg = "SIGKILL"

C14_Witness ==
    /\ KillLoopRan
    /\ last.pid = 1
    /\ Len(last.calls) = 3
    /\ last.calls[1].pid = 4
    /\ last.calls[2].pid = 2
    /\ last.calls[3].pid = 3
    /\ processes[4].parent_id = Some(2)
    /\ processes[3].parent_id = Some(1)

\* C15 as stated: in the sequence of kill signals of kill_descendants(pid)
\* the depth of the targets below pid never increases.
C15_Original ==
    KillLoopRan =>
        \A i, j \in 1..Len(last.calls) :
            i < j => Depth(last.calls[i].pid, last.pid)
                        >= Depth(last.calls[j].pid, last.pid)

\* C15 amended: kill_descendants(pid) applies kill in the reverse of the
\* depth-first discovery order: every descendant is signalled right after
\* all of its own descendants, which are signalled in one unbroken run.
C15_ReverseDiscovery ==
    KillLoopRan =>
        \A j \in 1..Len(last.calls) :
            LET below == Descendants(last.calls[j].pid)
                k == Cardinality(below)
            IN /\ k < j
               /\ {last.calls[i].pid : i \in (j - k)..(j - 1)} = below

C15_Witness ==
    /\ KillLoopRan
    /\ last.pid = 1
    /\ Len(last.calls) = 3
    /\ last.calls[1].pid = 3
    /\ last.calls[2].pid = 4
    /\ last.calls[3].pid = 2
    /\ Depth(3, 1) = 1
    /\ Depth(4, 1) = 2

\* C16: when kill_descendants(pid) returns success the returned list holds
\* exactly the descendants of pid in the tree of the current table, each
\* once, and the kill call of each of them succeeded; a pid whose kill
\* failed is never in a returned list.
C16_ReturnsAllDescendants ==
    (last.op = "kill_descendants" /\ last.result.kind = "Ok") =>
        /\ {last.result.pids[i] : i \in 1..Len(last.result.pids)}
              = Descendants(last.pid)
        /\ NoDuplicates(last.result.pids)
        /\ Len(last.calls) = Len(last.result.pids)
        /\ \A i \in 1..Len(last.calls) :
              /\ last.calls[i].pid = last.result.pids[i]
              /\ last.calls[i].os = "Ok"

C16_Witness ==
    /\ last.op = "kill_descendants"
    /\ last.result.kind = "Ok"
    /\ last.pid = 2
    /\ Len(last.result.pids) = 2
    /\ Cardinality(DOMAIN processes) = 4

\* C17: the session's privilege never changes after the manager is
\* constructed, and the process table and the CPU-time history change only
\* in the steps of a refresh: no control operation, batch operation,
\* kill_descendants, tree build or processes() query changes any of them.
C17_OnlyRefreshWrites ==
    [][/\ privilege' = privilege
       /\ (pc # "loop" \/ last'.op # "refresh")
            => managerVars' = managerVars]_vars

C17_Witness ==
    /\ last.op = "kill_process"
    /\ last.result = Ok
    /\ last.pid \in DOMAIN processes
    /\ last.pid \in DOMAIN previous_cpu_times

\* the step that ends a refresh which read, for the same pids, the same
\* attributes as the refresh before it
RepeatedRefresh ==
    /\ pc = "loop"
    /\ pc' = "idle"
    /\ os_before # EmptyMap
    /\ os_read = os_before

\* C18 as stated: two consecutive successful refreshes over an unchanged OS
\* process set produce tables with the same pids and the same value of
\* every field other than CPU percent.
C18_Original ==
    [][RepeatedRefresh =>
        /\ DOMAIN processes' = DOMAIN processes
        /\ \A pid \in DOMAIN processes :
              /\ processes'[pid].parent_id = processes[pid].parent_id
              /\ processes'[pid].uptime_seconds
                    = processes[pid].uptime_seconds]_vars

\* C18 amended: two consecutive successful refreshes over an unchanged OS
\* process set produce tables with the same pids and the same value of
\* every field other than CPU percent and uptime.
C18_SameButCpuAndUptime ==
    [][RepeatedRefresh =>
        /\ DOMAIN processes' = DOMAIN processes
        /\ \A pid \in DOMAIN processes :
              processes'[pid].parent_id = processes[pid].parent_id]_vars

C18_Witness ==
    /\ pc = "loop"
    /\ pending = {}
    /\ os_read = os_before
    /\ DOMAIN new_processes = Pids
    /\ \A pid \in Pids :
        /\ os_read[pid] = [ppid |-> RootPid, starttime |-> 0]
        /\ processes[pid].parent_id = Some(RootPid)
        /\ new_processes[pid].parent_id = Some(RootPid)
        /\ processes[pid].uptime_seconds = 0
        /\ new_processes[pid].uptime_seconds = 1

\* C19: once the enumeration call has succeeded the refresh returns
\* success, with the number of processes it loaded, however many of the
\* listed processes it had to skip (entry error, or a failed read of the
\* detailed record).
C19_SkipsNeverFail ==
    [][pc = "loop" =>
        \/ pc' = "loop"
        \/ /\ last'.op = "refresh"
           /\ last'.result = "Ok"
           /\ last'.value = Cardinality(DOMAIN processes')]_vars

C19_Witness ==
    /\ RefreshSucceeded
    /\ last.value = 1
    /\ Cardinality(DOMAIN processes) = 1
    /\ 1 \notin DOMAIN processes

\* C20: for an Admin session each single control operation issues exactly
\* one OS call, for the given pid (and nice value), and returns success if
\* and only if that call succeeded; when the OS rejects the call the
\* operation returns a failure naming the pid, and the call is not retried.
C20_AdminOneCall ==
    (last.op \in ControlOps /\ privilege = "Admin") =>
        /\ Len(last.calls) = 1
        /\ last.calls[1].pid = last.pid
        /\ last.op = "set_priority" => last.calls[1].arg = last.nice
        /\ (last.result = Ok) <=> (last.calls[1].os = "Ok")
        /\ last.calls[1].os # "Ok" => last.result = OsError(last.pid)

C20_Witness ==
    /\ privilege = "Admin"
    /\ last.op = "set_priority"
    /\ last.nice = 20
    /\ Len(last.calls) = 1
    /\ last.calls[1].os = "ESRCH"
    /\ last.result = OsError(last.pid)

\* C21: the core count that divides the CPU percentage is at least 1 in every
\* refresh cycle: it is the number of logical processors counted, and 1
\* whenever that number cannot be obtained, a readable processor listing
\* that counts zero processors included.
C21_CoresAtLeastOne == pc = "loop" => num_cores >= 1

\* C22: in every table produced by refresh a process record has an absent
\* parent pid if and only if it is the system root process; every other
\* process carries the pid of its declared parent.
C22_AbsentIffRoot ==
    RefreshSucceeded =>
        \A pid \in DOMAIN processes :
            (processes[pid].parent_id = None) <=> (pid = RootPid)

C24_NormalDeniedBeforeTree ==
    (last.op = "kill_descendants" /\ privilege = "Normal") =>
        /\ last.result = PermissionDenied
        /\ last.calls = <<>>

C24_Witness ==
    /\ privilege = "Normal"
    /\ last.op = "kill_descendants"
    /\ last.result = PermissionDenied
    /\ RootPid \notin DOMAIN processes
    /\ last.pid \in DOMAIN processes
    /\ last.calls = <<>>

\* pid is a node of the tree rooted at the manager's root pid
IsTreeNode(pid) ==
    /\ RootPid \in DOMAIN processes
    /\ pid = RootPid \/ Depth(pid, RootPid) > 0

\* C25: for an Admin session kill_descendants(pid) returns a failure and
\* issues zero kill signals exactly when the root pid is absent from the
\* table (no tree) or pid is not a node of the tree rooted at the manager's
\* root pid; in particular the node of a pid that is in the process table
\* is always located.
C25_FailsOnlyOutsideTable ==
    (last.op = "kill_descendants" /\ privilege = "Admin") =>
        /\ (last.result.kind # "Ok" /\ last.calls = <<>>)
              <=> ~IsTreeNode(last.pid)
        /\ (RootPid \in DOMAIN processes /\ last.pid \in DOMAIN processes)
              => last.result.kind # "NotFound"

\* C26: kill_descendants(pid) attempts the kill of every descendant of pid,
\* also after a kill has failed, and returns a failure if and only if at
\* least one kill failed; the failure carries the numbers of kills that
\* succeeded and failed, so a failure does not mean that no descendant was
\* killed.
C26_EveryDescendantAttempted ==
    KillLoopRan =>
        /\ Len(last.calls) = Cardinality(Descendants(last.pid))
        /\ \A p \in Descendants(last.pid) :
              \E i \in 1..Len(last.calls) : last.calls[i].pid = p
        /\ (last.result.kind = "KillFailed")
              <=> (\E i \in 1..Len(last.calls) : last.calls[i].os # "Ok")
        /\ last.result.kind = "KillFailed" =>
              /\ last.result.killed = Cardinality(OkCalls(last.calls))
              /\ last.result.killed + last.result.failed = Len(last.calls)

C26_Witness ==
    /\ KillLoopRan
    /\ last.result = KillFailed(2, 1)
    /\ Len(last.calls) = 3
    /\ last.calls[1].os = "ESRCH"
    /\ last.calls[2].os = "Ok"
    /\ last.calls[3].os = "Ok"

\* the signal batch_kill is to use
BatchSignal(force) == IF force THEN "SIGKILL" ELSE "SIGTERM"

\* C27: batch_kill(pids, force) sends SIGKILL to every target when force is
\* true and SIGTERM to every target when force is false: every signal of
\* one batch is the same one, and (in the Admin session of the front end)
\* every target receives it.
C27_OneSignalPerBatch ==
    last.op = "batch_kill" =>
        /\ \A i \in 1..Len(last.calls) :
              /\ last.calls[i].call = "kill"
              /\ last.calls[i].arg = BatchSignal(last.force)
        /\ privilege = "Admin" =>
              /\ Len(last.calls) = Len(last.pids)
              /\ \A i \in 1..Len(last.pids) :
                    last.calls[i].pid = last.pids[i]

C27_Witness ==
    /\ last.op = "batch_kill"
    /\ privilege = "Admin"
    /\ ~last.force
    /\ Len(last.pids) = 3
    /\ Len(last.calls) = 3
    /\ \A i \in 1..3 : last.calls[i].arg = "SIGTERM"
    /\ last.calls[1].os = "ESRCH"
    /\ last.calls[2].os = "Ok"

\* C28: after every successful refresh, for each pid of the table whose
\* tick read succeeded in that cycle the history entry is (the ticks read in
\* this cycle, this cycle's timestamp); a pid that already had a history
\* entry and whose tick read fails in this cycle has CPU percent 0 and keeps
\* its older sample unchanged for the next cycle.
C28_HistoryHoldsLatestRead ==
    RefreshSucceeded =>
        \A pid \in DOMAIN processes :
            /\ tick_read[pid].ok =>
                  /\ pid \in DOMAIN previous_cpu_times
                  /\ previous_cpu_times[pid]
                        = <<tick_read[pid].ticks, current_time>>
            /\ (pid \in DOMAIN history_at_start /\ ~tick_read[pid].ok) =>
                  /\ processes[pid].cpu_percent = Zero
                  /\ pid \in DOMAIN previous_cpu_times
                  /\ previous_cpu_times[pid] = history_at_start[pid]

C28_Witness ==
    /\ RefreshSucceeded
    /\ current_time = 1
    /\ DOMAIN processes = {1, 2}
    /\ DOMAIN history_at_start = {1, 2}
    /\ DOMAIN tick_read = {1, 2}
    /\ history_at_start[1] = <<100, 0>>
    /\ tick_read[1] = TickErr
    /\ previous_cpu_times[1] = <<100, 0>>
    /\ history_at_start[2] = <<100, 0>>
    /\ tick_read[2] = TickOk(200)
    /\ previous_cpu_times[2] = <<200, 1>>

\* a percentage below zero (minus infinity included)
Negative(a) == a[1] < 0

\* the pids of the cycle under way that have a previous sample and whose
\* ticks were read
ReadAgain ==
    {pid \in DOMAIN new_processes :
        pid \in DOMAIN history_at_start /\ tick_read[pid].ok}

\* C29: the CPU percent stored for any process after any sequence of
\* refreshes is never negative: when the cumulative ticks read are fewer
\* than those of the previous sample the tick delta counts as 0 (the
\* percent is that of an idle process), and when no time has elapsed
\* between the samples the percent is 0.
C29_PercentNeverNegative ==
    /\ \A pid \in DOMAIN processes : ~Negative(processes[pid].cpu_percent)
    /\ pc = "loop" =>
          /\ \A pid \in DOMAIN new_processes :
                ~Negative(new_processes[pid].cpu_percent)
          /\ \A pid \in ReadAgain :
                /\ tick_read[pid].ticks < history_at_start[pid][1] =>
                      new_processes[pid].cpu_percent
                         = cpu_percent_of(history_at_start[pid][1],
                                          history_at_start[pid], current_time,
                                          num_cores, hz)
                /\ (tick_read[pid].ticks < history_at_start[pid][1]
                      /\ num_cores >= 1) =>
                      new_processes[pid].cpu_percent = Zero
                /\ current_time = history_at_start[pid][2] =>
                      new_processes[pid].cpu_percent = Zero

C29_Witness ==
    /\ pc = "loop"
    /\ current_time = 1
    /\ num_cores = 1
    /\ \E pid \in ReadAgain :
        /\ history_at_start[pid] = <<200, 0>>
        /\ tick_read[pid] = TickOk(100)
        /\ new_processes[pid].cpu_percent = Zero

\* the number of nodes of a tree, a pid counted as often as it has nodes
RECURSIVE NodeCount(_)
RECURSIVE NodeCountUpto(_, _)
NodeCount(node) == 1 + NodeCountUpto(node.children, Len(node.children))

NodeCountUpto(children, n) ==
    IF n = 0 THEN 0
    ELSE NodeCountUpto(children, n - 1) + NodeCount(children[n])

\* C30: every node of the tree returned by build_process_tree holds a
\* process that is in the current table, no pid appears in more than one
\* node, and the root process never appears as a child of any node, for
\* every table, those where the root's own parent pid names another process
\* of the table included.
C30_TreeNodesAreDistinctProcesses ==
    (last.op = "build_process_tree" /\ last.result # None) =>
        /\ \A n \in NodesOf(last.result) :
              /\ n.process_id \in DOMAIN processes
              /\ n.process = processes[n.process_id]
              /\ RootPid \notin ChildPids(n)
        /\ NodeCount(last.result) = Cardinality(TreePidsOf(last.result))

C30_Witness ==
    /\ last.op = "build_process_tree"
    /\ DOMAIN processes = {1, 2, 3}
    /\ processes[1].parent_id = Some(2)
    /\ processes[2].parent_id = Some(1)
    /\ processes[3].parent_id = Some(2)
    /\ last.result # None
    /\ NodeCount(last.result) = 3
    /\ TreePidsOf(last.result) = {1, 2, 3}
====
